---- MODULE Spec2Model ----
(***************************************************************************)
(* A model of the dice-notation behaviour engine of caveman-frak/roll:     *)
(* Bounded ranges and their ordering (dice/bound.rs), Dice and its         *)
(* critical zones (dice/mod.rs), Value and its action log (roll/value.rs), *)
(* and the Behaviour engine (roll/behaviour.rs) driven through             *)
(* Behaviour::apply, Behaviour::apply_all and Roll::apply.                 *)
(***************************************************************************)
EXTENDS Integers, Sequences, FiniteSets, TLC

(***************************************************************************)
(* Bounds of the model.                                                    *)
(***************************************************************************)
\* longest value sequence a Roll is constructed with
MaxLen == 2
\* longest value sequence Keep and Drop are tried on
MaxDiscardLen == 3
\* rolls one behaviour can read off the random stream
MaxRolls == 2
\* behaviours applied to one Roll, over all calls
MaxApplied == 2
\* largest count of a Keep or Drop
MaxCount == 3

\* the entries of an action log a loop specification keeps (the latest ones)
MaxLog == 2

\* the longest string given to a parser
MaxText == 3
\* the Values of a Roll whose die is any of the variants
MaxZoneLen == 1
\* the inner values of the bounds compared: 1..MaxBound
MaxBound == 2

(***************************************************************************)
(* i8 arithmetic.  With overflow checks (debug profile) an overflow        *)
(* panics; without them (release profile) it wraps.                        *)
(***************************************************************************)
I8Min == -128
I8Max == 127

Wrap8(n) == ((n + 128) % 256) - 128

InI8(n) == I8Min <= n /\ n <= I8Max

\* a + b in i8: ok = FALSE is the overflow panic
Add8(a, b, checks) ==
    IF InI8(a + b) THEN [ok |-> TRUE, v |-> a + b]
    ELSE IF checks THEN [ok |-> FALSE, v |-> 0]
    ELSE [ok |-> TRUE, v |-> Wrap8(a + b)]

Max(a, b) == IF a >= b THEN a ELSE b

(***************************************************************************)
(* Option<T>                                                               *)
(***************************************************************************)
None == [some |-> FALSE]
Some(x) == [some |-> TRUE, val |-> x]

(***************************************************************************)
(* dice/bound.rs: Bound<i8> and Bounded                                    *)
(***************************************************************************)
Unbounded == [kind |-> "Unbounded"]
Included(n) == [kind |-> "Included", v |-> n]
Excluded(n) == [kind |-> "Excluded", v |-> n]

Bounded(s, e) == [start |-> s, end |-> e]

range_from(from) == Bounded(Included(from), Unbounded)

range_to(to) == Bounded(Unbounded, Included(to))

\* Bounded::from_range(..n), the half-open range used by the tests
range_until(to) == Bounded(Unbounded, Excluded(to))

\* Bounded::from_range(a..=b)
range_inclusive(a, b) == Bounded(Included(a), Included(b))

cmp_int(a, b) == IF a < b THEN "Less" ELSE IF a > b THEN "Greater" ELSE "Equal"

\* cmp_bound with Less in its last arm
cmp_bound_last_arm_less(this, that) ==
    IF this.kind = "Unbounded" /\ that.kind = "Unbounded" THEN "Equal"
    ELSE IF this.kind # "Unbounded" /\ that.kind # "Unbounded" THEN cmp_int(this.v, that.v)
    ELSE "Less"

cmp_bound(this, that) ==
    IF this.kind = "Unbounded" /\ that.kind = "Unbounded" THEN "Equal"
    ELSE IF this.kind # "Unbounded" /\ that.kind # "Unbounded" THEN cmp_int(this.v, that.v)
    ELSE IF this.kind # "Unbounded" /\ that.kind = "Unbounded" THEN "Less"
    ELSE "Greater"

\* impl Ord for Bounded
cmp_bounded(self, other) ==
    LET cmp == cmp_bound(self.start, other.start)
    IN  IF cmp = "Equal" THEN cmp_bound(self.end, other.end) ELSE cmp

\* RangeBounds::contains over start_bound / end_bound
contains(range, x) ==
    /\ CASE range.start.kind = "Included" -> range.start.v <= x
         [] range.start.kind = "Excluded" -> range.start.v < x
         [] OTHER -> TRUE
    /\ CASE range.end.kind = "Included" -> x <= range.end.v
         [] range.end.kind = "Excluded" -> x < range.end.v
         [] OTHER -> TRUE

\* contains on an Option<Bounded>: None contains nothing
in_range(opt, x) == opt.some /\ contains(opt.val, x)

(***************************************************************************)
(* dice/mod.rs: Dice                                                       *)
(***************************************************************************)
D2 == [name |-> "D2"]
D3 == [name |-> "D3"]
D4 == [name |-> "D4"]
D6 == [name |-> "D6"]
D8 == [name |-> "D8"]
D10 == [name |-> "D10"]
D12 == [name |-> "D12"]
D20 == [name |-> "D20"]
D100 == [name |-> "D100"]
D00 == [name |-> "D00"]
Fate == [name |-> "Fate"]
Other(s, e) == [name |-> "Other", s |-> s, e |-> e]

faces(dice) ==
    CASE dice.name = "D2" -> [start |-> 1, end |-> 2]
      [] dice.name = "D3" -> [start |-> 1, end |-> 3]
      [] dice.name = "D4" -> [start |-> 1, end |-> 4]
      [] dice.name = "D6" -> [start |-> 1, end |-> 6]
      [] dice.name = "D8" -> [start |-> 1, end |-> 8]
      [] dice.name = "D10" -> [start |-> 1, end |-> 10]
      [] dice.name = "D12" -> [start |-> 1, end |-> 12]
      [] dice.name = "D20" -> [start |-> 1, end |-> 20]
      [] dice.name = "D100" -> [start |-> 1, end |-> 100]
      [] dice.name = "D00" -> [start |-> 0, end |-> 0]
      [] dice.name = "Fate" -> [start |-> -1, end |-> 1]
      [] OTHER -> [start |-> dice.s, end |-> dice.e]

critical(dice) ==
    CASE dice.name \in {"D100", "D00"} -> Some(5)
      [] dice.name = "Fate" -> None
      [] OTHER -> Some(1)

\* Dice::start: [ok, val]; ok = FALSE is an overflow panic of start + crit - 1
start(dice, checks) ==
    IF critical(dice).some
    THEN LET crit == critical(dice).val
             s == faces(dice).start
             a == Add8(s, crit, checks)
             b == Add8(a.v, -1, checks)
         IN  IF a.ok /\ b.ok
             THEN [ok |-> TRUE, val |-> Some(range_inclusive(s, b.v))]
             ELSE [ok |-> FALSE, val |-> None]
    ELSE [ok |-> TRUE, val |-> None]

\* Dice::end: [ok, val]; ok = FALSE is an overflow panic of end + 1 - crit
end(dice, checks) ==
    IF critical(dice).some
    THEN LET crit == critical(dice).val
             e == faces(dice).end
             a == Add8(e, 1, checks)
             b == Add8(a.v, -crit, checks)
         IN  IF a.ok /\ b.ok
             THEN [ok |-> TRUE, val |-> Some(range_inclusive(b.v, e))]
             ELSE [ok |-> FALSE, val |-> None]
    ELSE [ok |-> TRUE, val |-> None]

\* Dice::roll: rng.gen_range(faces) takes the next face off the stream
roll(rng) == [r |-> Head(rng), rng |-> Tail(rng)]

(***************************************************************************)
(* roll/value.rs: ExType, Action, Value                                    *)
(***************************************************************************)
Discard == [a |-> "Discard"]
RerollAct(n) == [a |-> "Reroll", v |-> n]
ExplodeAct(n, ex) == [a |-> "Explode", v |-> n, ex |-> ex]
Failure == [a |-> "Failure"]
Success == [a |-> "Success"]

\* Value::new
new(n) == [value |-> n, actions |-> <<>>]

\* Value::add pushing the action twice
add_twice(self, action) == [self EXCEPT !.actions = Append(Append(@, action), action)]

\* Value::add
add(self, action) == [self EXCEPT !.actions = Append(@, action)]

\* Value::update keeping only the new action
update_replacing_log(self, n, action) == [value |-> n, actions |-> <<action>>]

\* Value::update
update(self, n, action) == [value |-> n, actions |-> Append(self.actions, action)]

\* v.actions().contains(&Action::Discard)
is_discarded(v) == \E i \in 1..Len(v.actions) : v.actions[i] = Discard

(***************************************************************************)
(* roll/behaviour.rs: DiscardDirection, DiscardType, Behaviour             *)
(***************************************************************************)
Reroll(point, repeat) == [kind |-> "Reroll", point |-> point, repeat |-> repeat]
Explode(point, explode) == [kind |-> "Explode", point |-> point, explode |-> explode]
Critical(f, s) == [kind |-> "Critical", failure |-> f, success |-> s]
Keep(number, direction) == [kind |-> "Keep", number |-> number, direction |-> direction]
Drop(number, direction) == [kind |-> "Drop", number |-> number, direction |-> direction]

DiscardType(t, direction) == [t |-> t, direction |-> direction]

\* results of the engine: the values, the unread stream, and how it ended
Ok(values, rng) == [values |-> values, rng |-> rng, st |-> "ok"]
Panic(values, rng) == [values |-> values, rng |-> rng, st |-> "panic"]
\* the loop asked for more rolls than the stream holds: the run is cut here
Starved(values, rng) == [values |-> values, rng |-> rng, st |-> "starved"]

(***************************************************************************)
(* #[derive(PartialOrd, Ord)]: variants in declaration order, then fields  *)
(* left to right.                                                          *)
(***************************************************************************)
\* lexicographic combination of two orderings
then_cmp(a, b) == IF a = "Equal" THEN b ELSE a

cmp_bool(a, b) == cmp_int(IF a THEN 1 ELSE 0, IF b THEN 1 ELSE 0)

\* cmp_option ranking None after Some(_), the way cmp_bound ranks Unbounded
cmp_option_none_last(a, b) ==
    IF a.some /\ b.some THEN cmp_bounded(a.val, b.val)
    ELSE cmp_bool(b.some, a.some)

\* Option<Bounded>: None < Some(_), Some by Bounded::cmp
cmp_option(a, b) ==
    IF a.some /\ b.some THEN cmp_bounded(a.val, b.val)
    ELSE cmp_bool(a.some, b.some)

extype_index(ex) ==
    CASE ex = "Standard" -> 0 [] ex = "Compound" -> 1 [] ex = "Penetrating" -> 2

direction_index(d) == CASE d = "High" -> 0 [] d = "Low" -> 1

variant_index(b) ==
    CASE b.kind = "Reroll" -> 0
      [] b.kind = "Explode" -> 1
      [] b.kind = "Critical" -> 2
      [] b.kind = "Keep" -> 3
      [] b.kind = "Drop" -> 4

cmp_behaviour(a, b) ==
    IF a.kind # b.kind THEN cmp_int(variant_index(a), variant_index(b))
    ELSE CASE a.kind = "Reroll" ->
                then_cmp(cmp_option(a.point, b.point), cmp_bool(a.repeat, b.repeat))
           [] a.kind = "Explode" ->
                then_cmp(cmp_option(a.point, b.point),
                         cmp_int(extype_index(a.explode), extype_index(b.explode)))
           [] a.kind = "Critical" ->
                then_cmp(cmp_option(a.failure, b.failure),
                         cmp_option(a.success, b.success))
           [] OTHER ->
                then_cmp(cmp_int(a.number, b.number),
                         cmp_int(direction_index(a.direction), direction_index(b.direction)))

\* the rearrangements of a sequence
Rearrangements(seq) ==
    LET n == Len(seq)
        bij == {f \in [1..n -> 1..n] : \A i, j \in 1..n : f[i] = f[j] => i = j}
    IN  {[i \in 1..n |-> seq[f[i]]] : f \in bij}

\* behaviours.sort_unstable(): some rearrangement in which no element is
\* Greater than a later one; the order of elements that compare Equal is
\* not specified
\* sort_unstable leaving the list as it was given
sort_unstable_as_given(behaviours) == {behaviours}

sort_unstable(behaviours) ==
    {p \in Rearrangements(behaviours) :
        \A i, j \in 1..Len(p) : i < j => cmp_behaviour(p[i], p[j]) # "Greater"}

(***************************************************************************)
(* Behaviour::failure / Behaviour::success: [ok, val]                      *)
(***************************************************************************)
failure(dice, point, checks) ==
    IF point.some THEN [ok |-> TRUE, val |-> point] ELSE start(dice, checks)

success(dice, point, checks) ==
    IF point.some THEN [ok |-> TRUE, val |-> point] ELSE end(dice, checks)

(***************************************************************************)
(* Behaviour::apply_reroll                                                 *)
(***************************************************************************)
RECURSIVE reroll_value_never_breaking(_, _, _, _)
\* reroll_value without `if !repeat { break; }`
reroll_value_never_breaking(range, repeat, v, rng) ==
    IF ~contains(range, v.value) THEN [v |-> v, rng |-> rng, st |-> "ok"]
    ELSE IF rng = <<>> THEN [v |-> v, rng |-> rng, st |-> "starved"]
    ELSE LET d == roll(rng)
         IN  reroll_value_never_breaking(range, repeat,
                                         update(v, d.r, RerollAct(v.value)), d.rng)

RECURSIVE reroll_value(_, _, _, _)
\* the while loop of one Value: [v, rng, st]
reroll_value(range, repeat, v, rng) ==
    IF ~contains(range, v.value) THEN [v |-> v, rng |-> rng, st |-> "ok"]
    ELSE IF rng = <<>> THEN [v |-> v, rng |-> rng, st |-> "starved"]
    ELSE LET d == roll(rng)
             nv == update(v, d.r, RerollAct(v.value))
         IN  IF ~repeat THEN [v |-> nv, rng |-> d.rng, st |-> "ok"]
             ELSE reroll_value(range, repeat, nv, d.rng)

RECURSIVE reroll_loop_backwards(_, _, _, _, _)
\* reroll_loop taking the Values from the last to the first
reroll_loop_backwards(range, repeat, values, rng, result) ==
    IF values = <<>> THEN Ok(result, rng)
    ELSE LET r == reroll_value(range, repeat, values[Len(values)], rng)
         IN  IF r.st # "ok" THEN Starved(values \o result, r.rng)
             ELSE reroll_loop_backwards(range, repeat, SubSeq(values, 1, Len(values) - 1),
                                        r.rng, <<r.v>> \o result)

RECURSIVE reroll_loop(_, _, _, _, _)
\* for value in values { ...; result.push(v) }
reroll_loop(range, repeat, values, rng, result) ==
    IF values = <<>> THEN Ok(result, rng)
    ELSE LET r == reroll_value(range, repeat, Head(values), rng)
         IN  IF r.st # "ok" THEN Starved(result \o values, r.rng)
             ELSE reroll_loop(range, repeat, Tail(values), r.rng, Append(result, r.v))

apply_reroll(point, repeat, dice, values, rng, checks) ==
    LET range == failure(dice, point, checks)
    IN  IF ~range.ok THEN Panic(values, rng)
        ELSE IF range.val.some THEN reroll_loop(range.val.val, repeat, values, rng, <<>>)
        ELSE Ok(values, rng)

(***************************************************************************)
(* Behaviour::apply_critical                                               *)
(***************************************************************************)
\* critical_value with the two match arms in the other order
critical_value_success_first(fail, succ, value) ==
    IF in_range(succ, value.value) THEN add(value, Success)
    ELSE IF in_range(fail, value.value) THEN add(value, Failure)
    ELSE value

\* the match of one Value: the failure arm comes first
critical_value(fail, succ, value) ==
    IF in_range(fail, value.value) THEN add(value, Failure)
    ELSE IF in_range(succ, value.value) THEN add(value, Success)
    ELSE value

apply_critical(f, s, dice, values, rng, checks) ==
    LET fail == failure(dice, f, checks)
        succ == success(dice, s, checks)
    IN  IF ~fail.ok \/ ~succ.ok THEN Panic(values, rng)
        ELSE Ok([i \in 1..Len(values) |-> critical_value(fail.val, succ.val, values[i])], rng)

(***************************************************************************)
(* Behaviour::apply_discard                                                *)
(***************************************************************************)
RECURSIVE insert_sorted(_, _)
insert_sorted(seq, x) ==
    IF seq = <<>> THEN <<x>>
    ELSE IF x <= Head(seq) THEN <<x>> \o seq
    ELSE <<Head(seq)>> \o insert_sorted(Tail(seq), x)

RECURSIVE sort_numbers(_)
\* Vec<i8>::sort_unstable: ascending
sort_numbers(seq) ==
    IF seq = <<>> THEN <<>> ELSE insert_sorted(sort_numbers(Tail(seq)), Head(seq))

reverse(seq) == [i \in 1..Len(seq) |-> seq[Len(seq) + 1 - i]]

\* undiscarded without the filter on Action::Discard
undiscarded_all(values) == [i \in 1..Len(values) |-> values[i].value]

RECURSIVE undiscarded(_)
\* the values of the Values that carry no Discard, in sequence order
undiscarded(values) ==
    IF values = <<>> THEN <<>>
    ELSE IF is_discarded(Head(values)) THEN undiscarded(Tail(values))
    ELSE <<Head(values).value>> \o undiscarded(Tail(values))

\* ordered reversing for Low instead of High
ordered_low_reversed(numbers, discard) ==
    IF discard.direction = "Low" THEN reverse(sort_numbers(numbers))
    ELSE sort_numbers(numbers)

\* numbers.sort_unstable(), reversed for Drop(High) and Keep(High)
ordered(numbers, discard) ==
    IF discard.direction = "High" THEN reverse(sort_numbers(numbers))
    ELSE sort_numbers(numbers)

\* select taking numbers[..number] for Keep as for Drop
select_prefix(number, discard, numbers) == SubSeq(numbers, 1, number)

\* numbers[..number] for Drop, numbers[number..] for Keep (number <= len)
select(number, discard, numbers) ==
    IF discard.t = "Drop" THEN SubSeq(numbers, 1, number)
    ELSE SubSeq(numbers, number + 1, Len(numbers))

\* discards.binary_search(&x).is_ok() on the sorted discards
found(discards, x) == \E i \in 1..Len(discards) : discards[i] = x

\* remove leaving the matched number among the discards
remove_nothing(discards, x) == discards

RECURSIVE remove(_, _)
\* discards.remove(index) at an index holding x
remove(discards, x) ==
    IF Head(discards) = x THEN Tail(discards)
    ELSE <<Head(discards)>> \o remove(Tail(discards), x)

RECURSIVE discard_loop(_, _, _)
\* for value in values { results.push(...) }
discard_loop(values, discards, results) ==
    IF values = <<>> THEN results
    ELSE LET value == Head(values)
         IN  IF is_discarded(value)
             THEN discard_loop(Tail(values), discards, Append(results, value))
             ELSE IF found(discards, value.value)
             THEN discard_loop(Tail(values), remove(discards, value.value),
                               Append(results, add(value, Discard)))
             ELSE discard_loop(Tail(values), discards, Append(results, value))

apply_discard(number, discard, values, rng) ==
    LET numbers == ordered(undiscarded(values), discard)
    IN  IF number > Len(numbers) THEN Panic(values, rng)
        ELSE Ok(discard_loop(values, sort_numbers(select(number, discard, numbers)), <<>>),
                rng)

(***************************************************************************)
(* Behaviour::apply_explode                                                *)
(***************************************************************************)
\* one iteration of the while loop: [ok, v, r]; ok = FALSE is an overflow panic
\* explode_step logging the face rolled, not the value before the roll
explode_step_logging_roll(explode, dice, v, rolled, first, checks) ==
    [ok |-> TRUE, r |-> rolled, v |-> update(v, rolled, ExplodeAct(rolled, explode))]

explode_step(explode, dice, v, rolled, first, checks) ==
    CASE explode = "Standard" ->
            [ok |-> TRUE, r |-> rolled,
             v |-> update(v, rolled, ExplodeAct(v.value, explode))]
      [] explode = "Penetrating" ->
            LET dec == Add8(rolled, -1, checks)
                r == Max(dec.v, faces(dice).start)
            IN  [ok |-> dec.ok, r |-> r,
                 v |-> update(v, r, ExplodeAct(v.value, explode))]
      [] explode = "Compound" ->
            LET v1 == IF first THEN add(v, ExplodeAct(v.value, explode)) ELSE v
                sum == Add8(v1.value, rolled, checks)
            IN  [ok |-> sum.ok, r |-> rolled,
                 v |-> update(v1, sum.v, ExplodeAct(rolled, explode))]

RECURSIVE explode_value(_, _, _, _, _, _, _, _)
\* the while loop of one Value: [v, rng, st]
explode_value(range, explode, dice, v, r, first, rng, checks) ==
    IF ~contains(range, r) THEN [v |-> v, rng |-> rng, st |-> "ok"]
    ELSE IF rng = <<>> THEN [v |-> v, rng |-> rng, st |-> "starved"]
    ELSE LET d == roll(rng)
             step == explode_step(explode, dice, v, d.r, first, checks)
         IN  IF ~step.ok THEN [v |-> v, rng |-> d.rng, st |-> "panic"]
             ELSE explode_value(range, explode, dice, step.v, step.r, FALSE, d.rng, checks)

RECURSIVE explode_loop_pushing(_, _, _, _, _, _, _)
\* explode_loop keeping the exploded die and pushing the explosion after it
explode_loop_pushing(range, explode, dice, values, rng, checks, result) ==
    IF values = <<>> THEN Ok(result, rng)
    ELSE LET value == Head(values)
             r == explode_value(range, explode, dice, value, value.value, TRUE, rng, checks)
         IN  IF r.st # "ok" THEN [values |-> result \o values, rng |-> r.rng, st |-> r.st]
             ELSE explode_loop_pushing(range, explode, dice, Tail(values), r.rng, checks,
                     IF r.v = value THEN Append(result, value)
                     ELSE result \o <<value, r.v>>)

RECURSIVE explode_loop(_, _, _, _, _, _, _)
\* for value in values { ...; result.push(v) }
explode_loop(range, explode, dice, values, rng, checks, result) ==
    IF values = <<>> THEN Ok(result, rng)
    ELSE LET value == Head(values)
             r == explode_value(range, explode, dice, value, value.value, TRUE, rng, checks)
         IN  IF r.st # "ok" THEN [values |-> result \o values, rng |-> r.rng, st |-> r.st]
             ELSE explode_loop(range, explode, dice, Tail(values), r.rng, checks,
                               Append(result, r.v))

apply_explode(point, explode, dice, values, rng, checks) ==
    LET range == success(dice, point, checks)
    IN  IF ~range.ok THEN Panic(values, rng)
        ELSE IF range.val.some
        THEN explode_loop(range.val.val, explode, dice, values, rng, checks, <<>>)
        ELSE Ok(values, rng)

(***************************************************************************)
(* Behaviour::apply                                                        *)
(***************************************************************************)
apply(behaviour, dice, values, rng, checks) ==
    CASE behaviour.kind = "Keep" ->
            apply_discard(behaviour.number, DiscardType("Keep", behaviour.direction),
                          values, rng)
      [] behaviour.kind = "Drop" ->
            apply_discard(behaviour.number, DiscardType("Drop", behaviour.direction),
                          values, rng)
      [] behaviour.kind = "Reroll" ->
            apply_reroll(behaviour.point, behaviour.repeat, dice, values, rng, checks)
      [] behaviour.kind = "Explode" ->
            apply_explode(behaviour.point, behaviour.explode, dice, values, rng, checks)
      [] behaviour.kind = "Critical" ->
            apply_critical(behaviour.failure, behaviour.success, dice, values, rng, checks)

(***************************************************************************)
(* Behaviour::apply_all after the sort: the for loop over one stream       *)
(***************************************************************************)
RECURSIVE apply_all(_, _, _, _, _)
apply_all(behaviours, dice, values, rng, checks) ==
    IF behaviours = <<>> THEN Ok(values, rng)
    ELSE LET r == apply(Head(behaviours), dice, values, rng, checks)
         IN  IF r.st # "ok" THEN r
             ELSE apply_all(Tail(behaviours), dice, r.values, r.rng, checks)

(***************************************************************************)
(* Text: a string is the sequence of its characters.  Results of FromStr   *)
(* are Ok(value), Err, or the abort of a panic.                            *)
(***************************************************************************)
OkOf(v) == [st |-> "Ok", val |-> v]
Err == [st |-> "Err"]
Abort == [st |-> "panic"]

Digits == <<"0", "1", "2", "3", "4", "5", "6", "7", "8", "9">>

is_digit(c) == \E i \in 1..10 : Digits[i] = c

digit(c) == (CHOOSE i \in 1..10 : Digits[i] = c) - 1

RECURSIVE digits_value(_)
digits_value(s) ==
    IF s = <<>> THEN 0
    ELSE digits_value(SubSeq(s, 1, Len(s) - 1)) * 10 + digit(s[Len(s)])

\* str::parse for an integer type with the range lo..hi: an optional sign
\* ('-' for signed types only), at least one digit, nothing else, in range
parse_int(s, lo, hi) ==
    LET signed == s # <<>> /\ (s[1] = "+" \/ (s[1] = "-" /\ lo < 0))
        body == IF signed THEN Tail(s) ELSE s
        n == IF s[1] = "-" THEN -digits_value(body) ELSE digits_value(body)
    IN  IF body = <<>> \/ \E i \in 1..Len(body) : ~is_digit(body[i]) THEN Err
        ELSE IF n < lo \/ n > hi THEN Err
        ELSE OkOf(n)

parse_i8(s) == parse_int(s, I8Min, I8Max)

parse_u8(s) == parse_int(s, 0, 255)

\* usize: the numbers of the strings parsed here stay far below usize::MAX
parse_usize(s) == parse_int(s, 0, 999999)

RECURSIVE fmt_nat(_)
fmt_nat(n) ==
    IF n < 10 THEN <<Digits[n + 1]>> ELSE fmt_nat(n \div 10) \o <<Digits[(n % 10) + 1]>>

\* {} of an integer
fmt_int(n) == IF n < 0 THEN <<"-">> \o fmt_nat(-n) ELSE fmt_nat(n)

\* one next() of str::split(sep): the piece, and what is left if sep was found
split_next(s, sep) ==
    IF \E i \in 1..Len(s) : s[i] = sep
    THEN LET i == CHOOSE i \in 1..Len(s) : s[i] = sep /\ \A j \in 1..(i - 1) : s[j] # sep
         IN  [piece |-> SubSeq(s, 1, i - 1), more |-> TRUE, rest |-> SubSeq(s, i + 1, Len(s))]
    ELSE [piece |-> s, more |-> FALSE, rest |-> <<>>]

\* (parts.next(), parts.next()) of s.split(sep): the first is always Some
split_two(s, sep) ==
    LET p == split_next(s, sep)
    IN  [first |-> p.piece,
         second |-> IF p.more THEN Some(split_next(p.rest, sep).piece) ELSE None]

\* Dice::parse_other
parse_other(s) ==
    LET parts == split_two(s, ":")
        one(text) == LET e == parse_i8(text)
                     IN  IF e.st = "Ok" THEN OkOf(Other(1, e.val)) ELSE Err
    IN  IF ~parts.second.some THEN one(parts.first)
        ELSE IF parts.first = <<>> THEN one(parts.second.val)
        ELSE LET st == parse_i8(parts.first)
                 e == parse_i8(parts.second.val)
             IN  IF st.st = "Ok" /\ e.st = "Ok" THEN OkOf(Other(st.val, e.val)) ELSE Err

\* impl FromStr for Dice
dice_from_str(s) ==
    CASE s = <<"2">> -> OkOf(D2)
      [] s = <<"3">> -> OkOf(D3)
      [] s = <<"4">> -> OkOf(D4)
      [] s = <<"6">> -> OkOf(D6)
      [] s = <<"8">> -> OkOf(D8)
      [] s = <<"1", "0">> -> OkOf(D10)
      [] s = <<"1", "2">> -> OkOf(D12)
      [] s = <<"2", "0">> -> OkOf(D20)
      [] s = <<"1", "0", "0">> -> OkOf(D100)
      [] s = <<"0", "0">> -> OkOf(D00)
      [] s = <<"%">> -> OkOf(D00)
      [] s = <<"F", "a", "t", "e">> -> OkOf(Fate)
      [] s = <<"F">> -> OkOf(Fate)
      [] OTHER -> parse_other(s)

\* impl Display for Dice
display_dice(d) ==
    CASE d.name = "Other" ->
            IF d.s = 1 THEN <<"D">> \o fmt_int(d.e)
            ELSE <<"D">> \o fmt_int(d.s) \o <<":">> \o fmt_int(d.e)
      [] d.name = "D2" -> <<"d", "2">>
      [] d.name = "D3" -> <<"d", "3">>
      [] d.name = "D4" -> <<"d", "4">>
      [] d.name = "D6" -> <<"d", "6">>
      [] d.name = "D8" -> <<"d", "8">>
      [] d.name = "D10" -> <<"d", "1", "0">>
      [] d.name = "D12" -> <<"d", "1", "2">>
      [] d.name = "D20" -> <<"d", "2", "0">>
      [] d.name = "D00" -> <<"d", "0", "0">>
      [] d.name = "D100" -> <<"d", "1", "0", "0">>
      [] d.name = "Fate" -> <<"F", "a", "t", "e">>

\* Die::new
Die(d, count) == [dice |-> d, count |-> count]

\* impl FromStr for Die
die_from_str(s) ==
    LET parts == split_two(s, "d")
        n == parse_u8(parts.first)
        count == IF n.st = "Ok" THEN n.val ELSE 1
        d == dice_from_str(IF parts.second.some THEN parts.second.val ELSE <<>>)
    IN  IF d.st = "Ok" THEN OkOf(Die(d.val, count)) ELSE Err

\* impl Display for Die
display_die(die) == fmt_int(die.count) \o display_dice(die.dice)

(***************************************************************************)
(* roll/behaviour.rs: impl FromStr for Behaviour and its parse_ functions. *)
(* `&s[..1]` panics on an empty s.                                         *)
(***************************************************************************)
\* `if s.is_empty() { None } else { Some(Bounded::range_to(s.parse()?)) }`
optional_to(s) ==
    IF s = <<>> THEN OkOf(None)
    ELSE LET n == parse_i8(s)
         IN  IF n.st = "Ok" THEN OkOf(Some(range_to(n.val))) ELSE Err

\* `if s.is_empty() { None } else { Some(Bounded::range_from(s.parse()?)) }`
optional_from(s) ==
    IF s = <<>> THEN OkOf(None)
    ELSE LET n == parse_i8(s)
         IN  IF n.st = "Ok" THEN OkOf(Some(range_from(n.val))) ELSE Err

parse_reroll(s) ==
    LET point == optional_to(s)
    IN  IF point.st = "Ok" THEN OkOf(Reroll(point.val, TRUE)) ELSE Err

parse_explode(s) ==
    IF s = <<>> THEN OkOf(Explode(None, "Standard"))
    ELSE LET tagged(extype) ==
                 LET range == optional_from(Tail(s))
                 IN  IF range.st = "Ok" THEN OkOf(Explode(range.val, extype)) ELSE Err
         IN  CASE s[1] \in {"!", "c"} -> tagged("Compound")
               [] s[1] = "p" -> tagged("Penetrating")
               [] OTHER ->
                     LET n == parse_i8(s)
                     IN  IF n.st = "Ok"
                         THEN OkOf(Explode(Some(range_from(n.val)), "Standard"))
                         ELSE Err

parse_critical(s) ==
    IF s = <<>> THEN Abort
    ELSE CASE s[1] = "s" ->
                 LET range == optional_from(Tail(s))
                 IN  IF range.st = "Ok" THEN OkOf(Critical(None, range.val)) ELSE Err
           [] s[1] = "f" ->
                 LET range == optional_to(Tail(s))
                 IN  IF range.st = "Ok" THEN OkOf(Critical(range.val, None)) ELSE Err
           [] OTHER -> Err

\* the match of parse_keep and parse_drop: [st, val = <<number, direction>>]
parse_discard(s, default) ==
    IF s = <<>> THEN Abort
    ELSE LET direction == CASE s[1] = "h" -> "High" [] s[1] = "l" -> "Low"
                            [] OTHER -> default
             number == parse_usize(IF s[1] \in {"h", "l"} THEN Tail(s) ELSE s)
         IN  IF number.st = "Ok" THEN OkOf(<<number.val, direction>>) ELSE Err

parse_keep(s) ==
    LET r == parse_discard(s, "High")
    IN  IF r.st = "Ok" THEN OkOf(Keep(r.val[1], r.val[2])) ELSE r

parse_drop(s) ==
    LET r == parse_discard(s, "Low")
    IN  IF r.st = "Ok" THEN OkOf(Drop(r.val[1], r.val[2])) ELSE r

\* impl FromStr for Behaviour
behaviour_from_str(s) ==
    IF s = <<>> THEN Abort
    ELSE CASE s[1] = "r" -> parse_reroll(Tail(s))
           [] s[1] \in {"!", "x"} -> parse_explode(Tail(s))
           [] s[1] = "c" /\ Len(s) > 1 -> parse_critical(Tail(s))
           [] s[1] = "k" -> parse_keep(Tail(s))
           [] s[1] = "d" -> parse_drop(Tail(s))
           [] OTHER -> Err

(***************************************************************************)
(* The state: one Roll (its die and its values), the position of a running *)
(* apply_all, and the record of what was applied and what was consumed.    *)
(***************************************************************************)
VARIABLES
    dice,       \* Roll.die.dice
    values,     \* Roll.values; inside apply_all, its local `values`
    pc,         \* "idle", "loop" (inside apply_all's for), "panicked"
    pending,    \* the sorted behaviours apply_all has not applied yet
    applied,    \* every behaviour applied to this Roll so far, in order
    base,       \* Len(applied) at the entry of the current (or last) call
    rolled,     \* every face taken off the random stream so far, in order
    arg,        \* the locals of a running loop, or the input of a conversion
    ret         \* the result a loop builds, or the output of a conversion

vars == <<dice, values, pc, pending, applied, base, rolled, arg, ret>>

(***************************************************************************)
(* Inputs.                                                                 *)
(***************************************************************************)
DiceSet == {D3, Fate, D100}

\* the faces drawn for a die: all of them, or the ends and (where it is a
\* face) one between
Sides(d) ==
    IF faces(d).end - faces(d).start < 6 THEN faces(d).start..faces(d).end
    ELSE {faces(d).start, 64, faces(d).end} \cap (faces(d).start..faces(d).end)

SeqsUpTo(S, n) == UNION {[1..k -> S] : k \in 0..n}

\* what one behaviour reads off the random stream
Streams(d) == SeqsUpTo(Sides(d), MaxRolls)

Directions == {"High", "Low"}

\* rerolls, explosions and critical marks, with default and explicit ranges
RollSet ==
    {Reroll(None, FALSE), Reroll(None, TRUE),
     Reroll(Some(range_until(2)), FALSE), Reroll(Some(range_to(2)), FALSE),
     Reroll(Some(range_to(2)), TRUE),
     Explode(None, "Standard"), Explode(None, "Compound"), Explode(None, "Penetrating"),
     Explode(Some(range_from(2)), "Compound"),
     Critical(None, None), Critical(Some(range_to(2)), Some(range_from(2))),
     Critical(Some(range_until(2)), Some(range_from(2)))}

\* every Keep and Drop up to MaxCount
DiscardSet ==
    {Keep(n, d) : n \in 0..MaxCount, d \in Directions}
    \cup {Drop(n, d) : n \in 0..MaxCount, d \in Directions}

BehSet ==
    RollSet \cup {Keep(1, "High"), Keep(2, "Low"), Drop(1, "Low"), Drop(2, "High")}

\* Roll::new(die, values): every Value starts with an empty action log
InitRoll(D, n) ==
    /\ dice \in D
    /\ \E faces_rolled \in SeqsUpTo(Sides(dice), n) :
           values = [i \in 1..Len(faces_rolled) |-> new(faces_rolled[i])]
    /\ pc = "idle"
    /\ pending = <<>>
    /\ applied = <<>>
    /\ base = 0
    /\ rolled = <<>>
    /\ arg = <<>>
    /\ ret = <<>>

\* values = Self::apply(behaviour, dice, values, rng), or its panic; the
\* stream is the faces this behaviour reads, all of them and no more
Step(behaviour, rest) ==
    \E stream \in Streams(dice), checks \in BOOLEAN :
        LET res == apply(behaviour, dice, values, stream, checks)
        IN  /\ res.st # "starved"
            /\ res.rng = <<>>
            /\ applied' = Append(applied, behaviour)
            /\ rolled' = rolled \o stream
            /\ IF res.st = "panic"
               THEN pc' = "panicked" /\ values' = values /\ pending' = pending
               ELSE values' = res.values /\ pending' = rest /\ pc' = pc

\* Roll::apply / Behaviour::apply_all up to the for loop: sort the behaviours.
\* A list of one behaviour is Behaviour::apply called on its own.
ApplyAll(B) ==
    /\ pc = "idle"
    /\ \E behaviours \in SeqsUpTo(B, MaxApplied - Len(applied)) :
          pending' \in sort_unstable(behaviours)
    /\ pc' = "loop"
    /\ base' = Len(applied)
    /\ UNCHANGED <<dice, values, applied, rolled, arg, ret>>

\* one turn of `for behaviour in behaviours`
ApplyAllStep ==
    /\ pc = "loop"
    /\ pending # <<>>
    /\ Len(applied) < MaxApplied
    /\ Step(Head(pending), Tail(pending))
    /\ UNCHANGED <<dice, base, arg, ret>>

\* the loop is over: apply_all returns values, Roll::apply stores them
ApplyAllReturn ==
    /\ pc = "loop"
    /\ pending = <<>>
    /\ pc' = "idle"
    /\ UNCHANGED <<dice, values, pending, applied, base, rolled, arg, ret>>

(***************************************************************************)
(* Spec: any behaviours on any die.                                        *)
(***************************************************************************)
Init == InitRoll(DiceSet, MaxLen)

Next == ApplyAll(BehSet) \/ ApplyAllStep \/ ApplyAllReturn

Spec == Init /\ [][Next]_vars

(***************************************************************************)
(* SpecDiscard: Keep and Drop of every count on longer rolls of a D3.      *)
(***************************************************************************)
InitDiscard == InitRoll({D3}, MaxDiscardLen)

NextDiscard == ApplyAll(DiscardSet) \/ ApplyAllStep \/ ApplyAllReturn

SpecDiscard == InitDiscard /\ [][NextDiscard]_vars

(***************************************************************************)
(* SpecFromRoll: Roll::from_roll(die, rng) and then any behaviours.  The   *)
(* die's count is in `arg`.                                                *)
(***************************************************************************)
\* Die::roll: Uniform::new_inclusive panics when low > high; then the first
\* `count` samples of the stream
die_roll(d, count, rng) ==
    IF faces(d).start > faces(d).end THEN [st |-> "panic", rolls |-> <<>>, rng |-> rng]
    ELSE IF Len(rng) < count THEN [st |-> "starved", rolls |-> <<>>, rng |-> rng]
    ELSE [st |-> "ok", rolls |-> SubSeq(rng, 1, count),
          rng |-> SubSeq(rng, count + 1, Len(rng))]

\* Roll::new(die, values): values.into_iter().map(Value::new).collect()
roll_new(rolls) == [i \in 1..Len(rolls) |-> new(rolls[i])]

FromRollDice == {D3, Fate, Other(3, 1)}

InitFromRoll ==
    /\ dice \in FromRollDice
    /\ arg \in 0..MaxLen
    /\ values = <<>>
    /\ pc = "new"
    /\ pending = <<>>
    /\ applied = <<>>
    /\ base = 0
    /\ rolled = <<>>
    /\ ret = <<>>

\* Roll::from_roll(die, rng) == Roll::new(die, die.roll(rng))
FromRoll ==
    /\ pc = "new"
    /\ \E stream \in SeqsUpTo(Sides(dice), arg) :
          LET res == die_roll(dice, arg, stream)
          IN  /\ res.st # "starved"
              /\ res.rng = <<>>
              /\ IF res.st = "panic"
                 THEN pc' = "panicked" /\ values' = values /\ rolled' = rolled
                 ELSE pc' = "idle" /\ values' = roll_new(res.rolls) /\ rolled' = stream
    /\ UNCHANGED <<dice, pending, applied, base, arg, ret>>

NextFromRoll == FromRoll \/ ApplyAll(BehSet) \/ ApplyAllStep \/ ApplyAllReturn

SpecFromRoll == InitFromRoll /\ [][NextFromRoll]_vars

(***************************************************************************)
(* SpecLoop: one call of apply_reroll or apply_explode, one turn of its    *)
(* while loop at a time.  The loops never read the action log, so only its *)
(* latest MaxLog entries are kept, and `rolled` holds the last face only:  *)
(* a loop that never ends then stays within finitely many states.          *)
(***************************************************************************)
LoopDice == {D3, Fate}

LoopFaces == -1..3

LoopSet ==
    {Reroll(p, rp) : p \in {None, Some(range_to(2)), Some(range_inclusive(1, 3))},
                     rp \in BOOLEAN}
    \cup {Explode(p, ex) : p \in {None, Some(range_from(2)), Some(range_to(2)),
                                   Some(range_inclusive(-1, 3))},
                           ex \in {"Standard", "Compound", "Penetrating"}}

\* the range the loop tests: Self::failure for Reroll, Self::success for Explode
trigger(behaviour, d) ==
    IF behaviour.kind = "Reroll" THEN failure(d, behaviour.point, FALSE).val
    ELSE success(d, behaviour.point, FALSE).val

\* the while condition: Reroll tests the value, Explode tests r
looping(behaviour, d, locals) ==
    contains(trigger(behaviour, d).val,
             IF behaviour.kind = "Reroll" THEN locals.v.value ELSE locals.r)

\* the latest MaxLog entries of a Value's log
latest(v) ==
    [v EXCEPT !.actions =
        IF Len(@) <= MaxLog THEN @ ELSE SubSeq(@, Len(@) - MaxLog + 1, Len(@))]

\* how many Values a loop is given: the total of a Compound explosion runs
\* through all of i8, so it gets one Value
LoopLen(behaviour) ==
    IF behaviour.kind = "Explode" /\ behaviour.explode = "Compound" THEN 1 ELSE MaxLen

InitLoop ==
    /\ dice \in LoopDice
    /\ pending \in {<<b>> : b \in LoopSet}
    /\ \E faces_rolled \in SeqsUpTo(Sides(dice), LoopLen(Head(pending))) :
           values = [i \in 1..Len(faces_rolled) |-> new(faces_rolled[i])]
    /\ pc = "call"
    /\ applied = <<>>
    /\ base = 0
    /\ rolled = <<>>
    /\ arg = <<>>
    /\ ret = <<>>

\* `if let Some(range) = ... { let mut result = Vec::new(); ... } else { values }`
LoopBegin ==
    /\ pc = "call"
    /\ IF trigger(Head(pending), dice).some
       THEN pc' = "for" /\ ret' = <<>> /\ values' = values
       ELSE pc' = "done" /\ ret' = values /\ values' = <<>>
    /\ UNCHANGED <<dice, pending, applied, base, rolled, arg>>

\* `for value in values { let mut v = value; ...`
LoopNext ==
    /\ pc = "for"
    /\ values # <<>>
    /\ arg' = [v |-> Head(values), r |-> Head(values).value, first |-> TRUE, broke |-> FALSE]
    /\ values' = Tail(values)
    /\ pc' = "while"
    /\ UNCHANGED <<dice, pending, applied, base, rolled, ret>>

\* one turn of the while loop, the die showing `face`
LoopRoll(face) ==
    /\ pc = "while"
    /\ face \in faces(dice).start..faces(dice).end
    /\ ~arg.broke
    /\ looping(Head(pending), dice, arg)
    /\ rolled' = <<face>>
    /\ LET b == Head(pending)
       IN  IF b.kind = "Reroll"
           THEN /\ arg' = [arg EXCEPT !.v = latest(update(@, face, RerollAct(@.value))),
                                      !.broke = ~b.repeat]
                /\ pc' = pc
           ELSE \E checks \in BOOLEAN :
                   LET res == explode_step(b.explode, dice, arg.v, face, arg.first, checks)
                   IN  IF res.ok
                       THEN /\ arg' = [arg EXCEPT !.v = latest(res.v), !.r = res.r,
                                                  !.first = FALSE]
                            /\ pc' = pc
                       ELSE arg' = arg /\ pc' = "panicked"
    /\ UNCHANGED <<dice, values, pending, applied, base, ret>>

\* the while loop is left (its condition is false, or `break`): result.push(v)
LoopPush ==
    /\ pc = "while"
    /\ arg.broke \/ ~looping(Head(pending), dice, arg)
    /\ ret' = Append(ret, arg.v)
    /\ arg' = <<>>
    /\ pc' = "for"
    /\ UNCHANGED <<dice, values, pending, applied, base, rolled>>

\* the for loop is over: the function returns result
LoopReturn ==
    /\ pc = "for"
    /\ values = <<>>
    /\ pc' = "done"
    /\ UNCHANGED <<dice, values, pending, applied, base, rolled, arg, ret>>

NextLoop ==
    \/ LoopBegin
    \/ LoopNext
    \/ \E face \in LoopFaces : LoopRoll(face)
    \/ LoopPush
    \/ LoopReturn

\* the function runs on, and the random source shows every face of the die
\* again and again
FairLoop ==
    /\ WF_vars(LoopBegin \/ LoopNext \/ LoopPush \/ LoopReturn)
    /\ \A face \in LoopFaces : SF_vars(LoopRoll(face))

SpecLoop == InitLoop /\ [][NextLoop]_vars /\ FairLoop

(***************************************************************************)
(* SpecOutcome: Outcomes::Total.process(values) on the values of a Roll,   *)
(* after any Keep and Drop.                                                *)
(***************************************************************************)
RECURSIVE sum_i8(_, _, _)
\* Iterator::sum over i8: acc + x from the left, each addition an i8 one
sum_i8(numbers, acc, checks) ==
    IF numbers = <<>> THEN [ok |-> TRUE, v |-> acc]
    ELSE LET next == Add8(acc, Head(numbers), checks)
         IN  IF ~next.ok THEN next ELSE sum_i8(Tail(numbers), next.v, checks)

\* Outcomes::Total.process: filter out the discarded, map to value, sum
process_total(vs, checks) ==
    LET total == sum_i8(undiscarded(vs), 0, checks)
    IN  IF total.ok THEN OkOf(total.v) ELSE Abort

OutcomeDice == {D3, D100}

OutcomeSet == {Keep(1, "High"), Drop(1, "Low")}

InitOutcome == InitRoll(OutcomeDice, MaxLen)

\* the finished values are handed over to process, which consumes them
ProcessTotal ==
    /\ pc = "idle"
    /\ \E checks \in BOOLEAN :
          /\ ret' = process_total(values, checks)
          /\ pc' = IF ret' = Abort THEN "panicked" ELSE "totalled"
    /\ UNCHANGED <<dice, values, pending, applied, base, rolled, arg>>

NextOutcome ==
    ApplyAll(OutcomeSet) \/ ApplyAllStep \/ ApplyAllReturn \/ ProcessTotal

SpecOutcome == InitOutcome /\ [][NextOutcome]_vars

(***************************************************************************)
(* SpecText: Display and FromStr of Dice and Die, FromStr of a behaviour   *)
(* token.  `arg` is the input, `ret` the text displayed and then the       *)
(* result of parsing it.                                                   *)
(***************************************************************************)
DiceValues ==
    {D2, D3, D4, D6, D8, D10, D12, D20, D100, D00, Fate}
    \cup {Other(s, e) : s, e \in {-1, 1, 3}}

DieValues ==
    {Die(d, count) : d \in {D6, D00, D100, Fate, Other(1, 3), Other(-1, 3)},
                     count \in {0, 1, 2, 10}}

DiceStrings == SeqsUpTo({"0", "1", "3", ":", "-", "%", "F", "d"}, MaxText)

Tokens ==
    SeqsUpTo({"r", "!", "x", "c", "k", "d", "h", "l", "s", "f", "p", "q", "2", "-"},
             MaxText)

InitText ==
    /\ \/ /\ arg \in {[t |-> "Dice", v |-> d] : d \in DiceValues}
                      \cup {[t |-> "Die", v |-> d] : d \in DieValues}
          /\ pc = "value"
          /\ ret = <<>>
       \/ /\ arg \in {[t |-> "DiceStr", v |-> str] : str \in DiceStrings}
                      \cup {[t |-> "Token", v |-> str] : str \in Tokens}
          /\ pc = "text"
          /\ ret = arg.v
    /\ dice = D3
    /\ values = <<>>
    /\ pending = <<>>
    /\ applied = <<>>
    /\ base = 0
    /\ rolled = <<>>

\* dice.to_string()
DisplayDice ==
    /\ pc = "value" /\ arg.t = "Dice"
    /\ ret' = display_dice(arg.v)
    /\ pc' = "text"
    /\ UNCHANGED <<dice, values, pending, applied, base, rolled, arg>>

\* die.to_string()
DisplayDie ==
    /\ pc = "value" /\ arg.t = "Die"
    /\ ret' = display_die(arg.v)
    /\ pc' = "text"
    /\ UNCHANGED <<dice, values, pending, applied, base, rolled, arg>>

\* text.parse::<T>(): a panic ends the program
Parsed(result) ==
    /\ pc = "text"
    /\ ret' = result
    /\ pc' = IF result = Abort THEN "panicked" ELSE "parsed"
    /\ UNCHANGED <<dice, values, pending, applied, base, rolled, arg>>

DiceFromStr == arg.t \in {"Dice", "DiceStr"} /\ Parsed(dice_from_str(ret))

DieFromStr == arg.t = "Die" /\ Parsed(die_from_str(ret))

BehaviourFromStr == arg.t = "Token" /\ Parsed(behaviour_from_str(ret))

NextText ==
    DisplayDice \/ DisplayDie \/ DiceFromStr \/ DieFromStr \/ BehaviourFromStr

SpecText == InitText /\ [][NextText]_vars

(***************************************************************************)
(* SpecZone: Dice::start() and Dice::end() of every variant, and the       *)
(* behaviours that fall back on them when they are given no range.         *)
(***************************************************************************)
\* every named variant, and Other over a signed range, over the range a
\* plain number parses to (1..=n) and up to the top of i8
ZoneDice ==
    {D2, D3, D4, D6, D8, D10, D12, D20, D100, D00, Fate,
     Other(-2, 2), Other(1, 5), Other(120, I8Max)}

\* Reroll, Explode and Critical with None for every range
ZoneSet ==
    {Reroll(None, FALSE), Reroll(None, TRUE),
     Explode(None, "Standard"), Explode(None, "Compound"), Explode(None, "Penetrating"),
     Critical(None, None)}

InitZone == InitRoll(ZoneDice, MaxZoneLen)

\* dice.start(), as Behaviour::failure calls it
Start ==
    /\ pc = "idle"
    /\ \E checks \in BOOLEAN : ret' = [f |-> "start", res |-> start(dice, checks)]
    /\ UNCHANGED <<dice, values, pc, pending, applied, base, rolled, arg>>

\* dice.end(), as Behaviour::success calls it
End ==
    /\ pc = "idle"
    /\ \E checks \in BOOLEAN : ret' = [f |-> "end", res |-> end(dice, checks)]
    /\ UNCHANGED <<dice, values, pc, pending, applied, base, rolled, arg>>

NextZone == Start \/ End \/ ApplyAll(ZoneSet) \/ ApplyAllStep \/ ApplyAllReturn

SpecZone == InitZone /\ [][NextZone]_vars

(***************************************************************************)
(* SpecOrder: Bounded::cmp on three ranges, in the pairings that the laws  *)
(* of an order speak of.                                                   *)
(***************************************************************************)
BoundSet ==
    {Unbounded} \cup {Included(v) : v \in 1..MaxBound} \cup {Excluded(v) : v \in 1..MaxBound}

BoundedSet == {Bounded(s, e) : s \in BoundSet, e \in BoundSet}

InitOrder ==
    /\ arg \in [a : BoundedSet, b : BoundedSet, c : BoundedSet]
    /\ pc = "args"
    /\ ret = <<>>
    /\ dice = D2
    /\ values = <<>>
    /\ pending = <<>>
    /\ applied = <<>>
    /\ base = 0
    /\ rolled = <<>>

\* a.cmp(&b), b.cmp(&a), b.cmp(&c), a.cmp(&c) and a.cmp(&a)
Cmp ==
    /\ pc = "args"
    /\ ret' = [ab |-> cmp_bounded(arg.a, arg.b), ba |-> cmp_bounded(arg.b, arg.a),
               bc |-> cmp_bounded(arg.b, arg.c), ac |-> cmp_bounded(arg.a, arg.c),
               aa |-> cmp_bounded(arg.a, arg.a)]
    /\ pc' = "compared"
    /\ UNCHANGED <<dice, values, pending, applied, base, rolled, arg>>

NextOrder == Cmp

SpecOrder == InitOrder /\ [][NextOrder]_vars

(***************************************************************************)
(* SpecCritical: apply_all on lists of the Critical behaviours that the    *)
(* tokens "cs", "cf", "cs5" and "cf5" parse to, on rolls of a D6.          *)
(***************************************************************************)
CriticalTokens == {<<"c", "s">>, <<"c", "f">>, <<"c", "s", "5">>, <<"c", "f", "5">>}

CriticalSet == {behaviour_from_str(token).val : token \in CriticalTokens}

InitCritical == InitRoll({D6}, MaxLen)

NextCritical == ApplyAll(CriticalSet) \/ ApplyAllStep \/ ApplyAllReturn

SpecCritical == InitCritical /\ [][NextCritical]_vars

(***************************************************************************)
(* Vocabulary of the properties.                                           *)
(***************************************************************************)
IsPrefix(s, t) == Len(s) <= Len(t) /\ SubSeq(t, 1, Len(s)) = s

\* the classes of the canonical order, 1 (first) to 6 (last)
ClassOf(b) ==
    CASE b.kind = "Reroll" /\ ~b.point.some -> 1
      [] b.kind = "Reroll" /\ b.point.some -> 2
      [] b.kind = "Explode" -> 3
      [] b.kind = "Critical" -> 4
      [] b.kind = "Keep" -> 5
      [] b.kind = "Drop" -> 6

\* the behaviours the current (or last) call has applied
ThisCall == SubSeq(applied, base + 1, Len(applied))

\* this step applied a behaviour and came back from it
Applied == Len(applied') = Len(applied) + 1 /\ pc' # "panicked"

JustApplied == applied'[Len(applied')]

\* the default zones of a die: its `width` lowest and highest faces
DefaultLow(d) ==
    IF critical(d).some
    THEN faces(d).start..(faces(d).start + critical(d).val - 1) ELSE {}

DefaultHigh(d) ==
    IF critical(d).some
    THEN (faces(d).end - critical(d).val + 1)..faces(d).end ELSE {}

\* x lies in the effective failure (success) range of an optional point
InLow(point, x) == IF point.some THEN contains(point.val, x) ELSE x \in DefaultLow(dice)

InHigh(point, x) == IF point.some THEN contains(point.val, x) ELSE x \in DefaultHigh(dice)

Positions(vs) == 1..Len(vs)

Discarded(vs) == {i \in Positions(vs) : is_discarded(vs[i])}

\* every value at a position of A is at least every value at a position of B
Above(vs, A, B) == \A i \in A, j \in B : vs[i].value >= vs[j].value

\* how many Discard actions a Value carries
Discards(v) == Cardinality({k \in 1..Len(v.actions) : v.actions[k] = Discard})

\* the actions a step appended to a Value
Appended(was, now) == SubSeq(now.actions, Len(was.actions) + 1, Len(now.actions))

RECURSIVE RerollsRead(_, _, _)
\* the faces the rerolls of a step read, from the logs: a resample's face is
\* the previous value of the next resample, the last one is the new value
RerollsRead(was, now, i) ==
    IF i > Len(was) THEN <<>>
    ELSE LET app == Appended(was[i], now[i])
             k == Len(app)
         IN  [j \in 1..k |-> IF j < k THEN app[j + 1].v ELSE now[i].value]
             \o RerollsRead(was, now, i + 1)

RECURSIVE SumV(_)
\* the sum of the values recorded in a sequence of actions
SumV(acts) == IF acts = <<>> THEN 0 ELSE Head(acts).v + SumV(Tail(acts))

(***************************************************************************)
(* C1: apply_all applies its behaviours in the canonical order: within one *)
(* call the class of the behaviours applied never decreases (Reroll with   *)
(* no point, Reroll with a point, Explode, Critical, Keep, Drop), and no   *)
(* behaviour still waiting is of an earlier class than one applied.        *)
(***************************************************************************)
C1_CanonicalOrder ==
    /\ \A i, j \in 1..Len(ThisCall) :
          i < j => ClassOf(ThisCall[i]) <= ClassOf(ThisCall[j])
    /\ pc = "loop" =>
          \A i \in 1..Len(ThisCall), j \in 1..Len(pending) :
              ClassOf(ThisCall[i]) <= ClassOf(pending[j])

\* one call has applied a Reroll without a point, then one with a point
C1_Witness ==
    /\ pc = "idle" /\ base = 0 /\ Len(applied) = 2
    /\ ClassOf(applied[1]) = 1 /\ ClassOf(applied[2]) = 2

(***************************************************************************)
(* C2: the result of apply_all does not depend on the order of the list it *)
(* is given: whatever order the sort leaves the behaviours in, the same    *)
(* dice, values and random stream give the same values and action logs.    *)
(***************************************************************************)
C2_OrderIndependent ==
    (pc = "loop" /\ Len(applied) = base) =>
        \A s1, s2 \in sort_unstable(pending) :
            \A stream \in [1..MaxRolls -> Sides(dice)], checks \in BOOLEAN :
                LET r1 == apply_all(s1, dice, values, stream, checks)
                    r2 == apply_all(s2, dice, values, stream, checks)
                IN  (r1.st = "ok" /\ r2.st = "ok") => r1.values = r2.values

(***************************************************************************)
(* C3: every application of a behaviour returns as many Values as it was   *)
(* given, each at its position: its action log extends the log it had, and *)
(* a Value whose log did not grow is returned as it was.                   *)
(***************************************************************************)
C3_SameLength ==
    [][/\ Len(values') = Len(values)
       /\ \A i \in 1..Len(values) :
             /\ IsPrefix(values[i].actions, values'[i].actions)
             /\ values'[i].actions = values[i].actions => values'[i] = values[i]]_vars

\* two Values, the second one exploded
C3_Witness ==
    /\ Len(values) = 2
    /\ values[1].actions = <<>>
    /\ \E k \in 1..Len(values[2].actions) : values[2].actions[k].a = "Explode"

(***************************************************************************)
(* C4: among the Values not yet discarded, Drop(count, High) discards      *)
(* exactly the count highest and Drop(count, Low) the count lowest;        *)
(* Keep(count, High) discards all but the count highest and                *)
(* Keep(count, Low) all but the count lowest (count not above their        *)
(* number).  No value changes.                                             *)
(***************************************************************************)
C4_Discard ==
    [][(Applied /\ JustApplied.kind \in {"Keep", "Drop"}) =>
        LET b == JustApplied
            U == Positions(values) \ Discarded(values)
            N == U \cap Discarded(values')
            K == U \ N
        IN  /\ Len(values') = Len(values)
            /\ \A i \in Positions(values) : values'[i].value = values[i].value
            /\ CASE b.kind = "Drop" /\ b.direction = "High" ->
                        Cardinality(N) = b.number /\ Above(values, N, K)
                 [] b.kind = "Drop" /\ b.direction = "Low" ->
                        Cardinality(N) = b.number /\ Above(values, K, N)
                 [] b.kind = "Keep" /\ b.direction = "High" ->
                        Cardinality(K) = b.number /\ Above(values, K, N)
                 [] b.kind = "Keep" /\ b.direction = "Low" ->
                        Cardinality(K) = b.number /\ Above(values, N, K)]_vars

\* [1, 2, 3] after Keep(2, High), which discarded the 1, then Drop(1, High),
\* which discarded the 3 and left the 2
C4_Witness ==
    /\ applied = <<Keep(2, "High"), Drop(1, "High")>>
    /\ Len(values) = 3
    /\ \A i \in 1..3 : values[i].value = i
    /\ Discarded(values) = {1, 3}

(***************************************************************************)
(* C5: a Value already discarded is not selected again: no Value carries   *)
(* more than one Discard, and Drop(a, dir) followed by Drop(b, dir) on     *)
(* values with none discarded discards exactly the a + b highest (High) or *)
(* lowest (Low) values, when a + b does not exceed their number.           *)
(***************************************************************************)
C5_DropTwice ==
    /\ \A i \in Positions(values) : Discards(values[i]) <= 1
    /\ ( /\ pc # "panicked"
         /\ Len(applied) = 2
         /\ applied[1].kind = "Drop" /\ applied[2].kind = "Drop"
         /\ applied[1].direction = applied[2].direction
         /\ applied[1].number + applied[2].number <= Len(values) ) =>
            LET D == Discarded(values)
                K == Positions(values) \ D
            IN  /\ Cardinality(D) = applied[1].number + applied[2].number
                /\ IF applied[1].direction = "High"
                   THEN Above(values, D, K) ELSE Above(values, K, D)

\* Drop(2, High) and then Drop(1, High) discarded all of [1, 2, 3]
C5_Witness ==
    /\ pc = "idle"
    /\ applied = <<Drop(2, "High"), Drop(1, "High")>>
    /\ Len(values) = 3
    /\ \A i \in 1..3 : values[i].value = i
    /\ Discarded(values) = {1, 2, 3}

(***************************************************************************)
(* C6: on len values with none discarded, Keep(n, dir) keeps n and         *)
(* discards len - n, and Drop(len - n, dir) discards len - n and keeps n:  *)
(* the kept and the discarded Values are disjoint and make up the input.   *)
(***************************************************************************)
C6_Complement ==
    (pc # "panicked" /\ Len(applied) = 1) =>
        LET b == applied[1]
            D == Discarded(values)
            K == Positions(values) \ D
            n == IF b.kind = "Keep" THEN b.number ELSE Len(values) - b.number
        IN  /\ D \cap K = {} /\ D \cup K = Positions(values)
            /\ Cardinality(K) = n
            /\ Cardinality(D) = Len(values) - n

\* Keep(1, Low) on three values kept one and discarded two
C6_Witness ==
    /\ pc = "idle"
    /\ applied = <<Keep(1, "Low")>>
    /\ Len(values) = 3
    /\ Cardinality(Discarded(values)) = 2

(***************************************************************************)
(* C7: one Critical appends at most one mark to each Value: Failure if its *)
(* value is in the effective failure range, else Success if it is in the   *)
(* effective success range, else nothing; in both ranges it is Failure.    *)
(***************************************************************************)
C7_Critical ==
    [][(Applied /\ JustApplied.kind = "Critical") =>
        LET b == JustApplied
        IN  /\ Len(values') = Len(values)
            /\ \A i \in Positions(values) :
                  LET was == values[i]
                  IN  /\ values'[i].value = was.value
                      /\ values'[i].actions =
                            IF InLow(b.failure, was.value)
                            THEN Append(was.actions, Failure)
                            ELSE IF InHigh(b.success, was.value)
                            THEN Append(was.actions, Success)
                            ELSE was.actions]_vars

\* a 2, inside both ..=2 and 2.., was marked Failure only
C7_Witness ==
    /\ applied = <<Critical(Some(range_to(2)), Some(range_from(2)))>>
    /\ \E i \in Positions(values) :
          values[i] = [value |-> 2, actions |-> <<Failure>>]

(***************************************************************************)
(* C8: Reroll resamples exactly the Values whose value is in the trigger   *)
(* range, appending Reroll(previous value) for each resample and reading   *)
(* one face for it; without repeat a Value gains one Reroll at most, even  *)
(* if the new value is in the range again; with repeat the final value is  *)
(* outside the range; a Value outside the range is returned unchanged.     *)
(***************************************************************************)
C8_Reroll ==
    [][(Applied /\ JustApplied.kind = "Reroll") =>
        LET b == JustApplied
        IN  /\ Len(values') = Len(values)
            /\ \A i \in Positions(values) :
                  LET was == values[i]
                      now == values'[i]
                      app == Appended(was, now)
                  IN  IF ~InLow(b.point, was.value) THEN now = was
                      ELSE /\ IsPrefix(was.actions, now.actions)
                           /\ Len(app) >= 1
                           /\ app[1] = RerollAct(was.value)
                           /\ \A j \in 2..Len(app) :
                                 app[j].a = "Reroll" /\ InLow(b.point, app[j].v)
                           /\ ~b.repeat => Len(app) = 1
                           /\ b.repeat => ~InLow(b.point, now.value)
            /\ rolled' = rolled \o RerollsRead(values, values', 1)]_vars

\* a 1 of a D3, rerolled once without repeat, came up 1 again and stayed
C8_Witness ==
    /\ dice = D3
    /\ applied = <<Reroll(None, FALSE)>>
    /\ \E i \in Positions(values) :
          values[i] = [value |-> 1, actions |-> <<RerollAct(1)>>]

(***************************************************************************)
(* C9: a Compound explosion of a Value whose value v0 is in the trigger    *)
(* range, with rolls r1..rk of which only the last is outside the range,   *)
(* ends with the value v0 + r1 + ... + rk and appends Explode(v0) followed *)
(* by Explode(r1) ... Explode(rk); the loop goes on by the face rolled.    *)
(***************************************************************************)
C9_CompoundSum ==
    [][(Applied /\ JustApplied.kind = "Explode" /\ JustApplied.explode = "Compound") =>
        LET b == JustApplied
        IN  \A i \in Positions(values) :
                LET was == values[i]
                    now == values'[i]
                    app == Appended(was, now)
                    k == Len(app) - 1
                IN  IF ~InHigh(b.point, was.value) THEN now = was
                    ELSE /\ IsPrefix(was.actions, now.actions)
                         /\ k >= 1
                         /\ app[1] = ExplodeAct(was.value, "Compound")
                         /\ \A j \in 1..k :
                               /\ app[j + 1].a = "Explode"
                               /\ app[j + 1].ex = "Compound"
                               /\ InHigh(b.point, app[j + 1].v) <=> j < k
                         /\ now.value = was.value + SumV(Tail(app))]_vars

(***************************************************************************)
(* C10: evaluation never aborts: whatever behaviour is applied to whatever *)
(* values and die, apply and apply_all return a value sequence.            *)
(***************************************************************************)
C10_NoAbort == pc # "panicked"

\* the trigger range of the running loop leaves out a face of the die
OmitsFace ==
    LET range == trigger(Head(pending), dice)
    IN  range.some => \E f \in faces(dice).start..faces(dice).end : ~contains(range.val, f)

Terminated == pc \in {"done", "panicked"}

(***************************************************************************)
(* C11: a repeating Reroll or an Explode of any kind whose trigger range   *)
(* leaves out at least one face of the die comes to an end for every       *)
(* Value, provided the random source shows every face again and again.     *)
(***************************************************************************)
C11_Terminates == (pc = "call" /\ OmitsFace) ~> Terminated

\* the faces a step took off the random stream
Consumed == SubSeq(rolled', Len(rolled) + 1, Len(rolled'))

RECURSIVE Replays(_, _, _, _, _, _)
\* `now` is `was` with the behaviour applied to one Value after the other,
\* from the first to the last, each reading the stream where the one before
\* it stopped, and the stream is used up
Replays(behaviour, was, now, i, stream, checks) ==
    IF i > Len(was) THEN stream = <<>>
    ELSE LET res == apply(behaviour, dice, <<was[i]>>, stream, checks)
         IN  /\ res.st = "ok"
             /\ now[i] = res.values[1]
             /\ Replays(behaviour, was, now, i + 1, res.rng, checks)

C13_DieRoll ==
    [][(pc = "new" /\ pc' # "new") =>
          /\ pc' = "idle"
          /\ Len(values') = arg
          /\ \A i \in 1..Len(values') :
                /\ values'[i].value \in faces(dice).start..faces(dice).end
                /\ values'[i].actions = <<>>]_vars

(***************************************************************************)
(* C14: every Dice that FromStr returns, from 'start:end', ':end' or a     *)
(* bare end as from a name, has faces() with start <= end, not empty.      *)
(***************************************************************************)
C14_FacesNotEmpty ==
    (pc = "parsed" /\ arg.t \in {"Dice", "DiceStr"} /\ ret.st = "Ok") =>
        faces(ret.val).start <= faces(ret.val).end

(***************************************************************************)
(* C15: parsing the string that Display gives for a Dice or a Die returns  *)
(* a value equal to the one displayed.                                     *)
(***************************************************************************)
C15_RoundTrip ==
    (pc = "parsed" /\ arg.t \in {"Dice", "Die"}) => ret = OkOf(arg.v)

\* the grammar of a behaviour token
IsNumber(s) == parse_i8(s).st = "Ok"

IsCount(s) == parse_usize(s).st = "Ok"

WellFormed(token) ==
    /\ token # <<>>
    /\ LET rest == Tail(token)
           tagged(tags, suffix(_)) ==
               rest # <<>> /\ rest[1] \in tags /\ suffix(Tail(rest))
           number_or_none(s) == s = <<>> \/ IsNumber(s)
       IN  CASE token[1] = "r" -> number_or_none(rest)
             [] token[1] \in {"!", "x"} ->
                   number_or_none(rest) \/ tagged({"!", "c", "p"}, number_or_none)
             [] token[1] = "c" -> tagged({"s", "f"}, number_or_none)
             [] token[1] \in {"k", "d"} -> IsCount(rest) \/ tagged({"h", "l"}, IsCount)
             [] OTHER -> FALSE

(***************************************************************************)
(* C16: parsing a behaviour token whose leading character is not one of    *)
(* r, !, x, c, k, d, or whose number is malformed or missing where one is  *)
(* required, returns Err: never a Behaviour, never an abort.               *)
(***************************************************************************)
C16_ParseError ==
    (pc \in {"parsed", "panicked"} /\ arg.t = "Token" /\ arg.v # <<>>
        /\ ~WellFormed(arg.v)) => ret = Err

RECURSIVE Total(_)
\* the sum of the values of the Values not marked Discard
Total(vs) ==
    IF vs = <<>> THEN 0
    ELSE (IF is_discarded(Head(vs)) THEN 0 ELSE Head(vs).value) + Total(Tail(vs))

(***************************************************************************)
(* C17: Outcomes::Total gives the arithmetic sum of the values of the      *)
(* Values not marked Discard, for every value sequence.                    *)
(***************************************************************************)
C17_Total == ret # <<>> => ret = OkOf(Total(values))

\* the numbers a Keep or Drop selects for discarding, out of `vs`
DiscardMultiset(behaviour, vs) ==
    LET discard == DiscardType(behaviour.kind, behaviour.direction)
    IN  select(behaviour.number, discard, ordered(undiscarded(vs), discard))

(***************************************************************************)
(* C18: Keep and Drop match the numbers selected for discarding against    *)
(* the Values by equality, one Value for each number: as many Values are   *)
(* newly discarded as numbers were selected, as many of each value as the  *)
(* selection holds, and among Values of equal value the earliest ones.     *)
(***************************************************************************)
C18_Multiplicity ==
    [][(Applied /\ JustApplied.kind \in {"Keep", "Drop"}) =>
        LET U == Positions(values) \ Discarded(values)
            N == U \cap Discarded(values')
            D == DiscardMultiset(JustApplied, values)
        IN  /\ Cardinality(N) = Len(D)
            /\ \A x \in {values[i].value : i \in U} :
                  Cardinality({i \in N : values[i].value = x})
                      = Cardinality({k \in 1..Len(D) : D[k] = x})
            /\ \A i, j \in U :
                  (i < j /\ values[i].value = values[j].value /\ j \in N) => i \in N]_vars

\* Keep(2, High) on [2, 2, 3] discarded the first 2 and kept the second
C18_Witness ==
    /\ applied = <<Keep(2, "High")>>
    /\ Len(values) = 3
    /\ values[1] = [value |-> 2, actions |-> <<Discard>>]
    /\ values[2] = [value |-> 2, actions |-> <<>>]
    /\ values[3] = [value |-> 3, actions |-> <<>>]

(***************************************************************************)
(* C19: a Standard explosion of a Value whose value is in the trigger      *)
(* range replaces the value by a new roll again and again, appending       *)
(* Explode(value before that roll, Standard) for each roll, and stops at   *)
(* the first roll outside the range: the final value is outside the range  *)
(* and there are as many Explode actions as rolls read; a Value outside    *)
(* the range is returned unchanged.                                        *)
(***************************************************************************)
C19_Standard ==
    [][(Applied /\ JustApplied.kind = "Explode" /\ JustApplied.explode = "Standard") =>
        LET b == JustApplied
        IN  /\ Len(values') = Len(values)
            /\ \A i \in Positions(values) :
                  LET was == values[i]
                      now == values'[i]
                      app == Appended(was, now)
                  IN  IF ~InHigh(b.point, was.value) THEN now = was
                      ELSE /\ IsPrefix(was.actions, now.actions)
                           /\ Len(app) >= 1
                           /\ app[1] = ExplodeAct(was.value, "Standard")
                           /\ \A j \in 2..Len(app) :
                                 /\ app[j].a = "Explode" /\ app[j].ex = "Standard"
                                 /\ InHigh(b.point, app[j].v)
                           /\ ~InHigh(b.point, now.value)
            /\ Consumed = RerollsRead(values, values', 1)]_vars

\* a 3 of a D3 exploded into a 3, which exploded into a 1
C19_Witness ==
    /\ dice = D3
    /\ applied = <<Explode(None, "Standard")>>
    /\ \E i \in Positions(values) :
          values[i] = [value |-> 1,
                       actions |-> <<ExplodeAct(3, "Standard"), ExplodeAct(3, "Standard")>>]

RECURSIVE Penetrates(_, _, _, _, _)
\* `now` is `was` after a Penetrating explosion that reads `stream`, each
\* Value in the range reading faces up to the first one outside the range
Penetrates(point, was, now, i, stream) ==
    IF i > Len(was) THEN stream = <<>>
    ELSE IF ~InHigh(point, was[i].value)
    THEN now[i] = was[i] /\ Penetrates(point, was, now, i + 1, stream)
    ELSE LET stops == {k \in 1..Len(stream) : ~InHigh(point, stream[k])}
             lowered(k) == Max(stream[k] - 1, faces(dice).start)
             app == Appended(was[i], now[i])
         IN  /\ stops # {}
             /\ LET last == CHOOSE k \in stops : \A other \in stops : k <= other
                IN  /\ IsPrefix(was[i].actions, now[i].actions)
                    /\ Len(app) = last
                    /\ app[1] = ExplodeAct(was[i].value, "Penetrating")
                    /\ \A j \in 2..last : app[j] = ExplodeAct(lowered(j - 1), "Penetrating")
                    /\ now[i].value = lowered(last)
                    /\ Penetrates(point, was, now, i + 1,
                                  SubSeq(stream, last + 1, Len(stream)))

(***************************************************************************)
(* C20: a Penetrating explosion replaces the value at each turn by         *)
(* max(new roll - 1, lowest face), appending Explode(previous value,       *)
(* Penetrating), and goes on while the new roll itself is in the trigger   *)
(* range, as Standard does.                                                *)
(***************************************************************************)
C20_Penetrating ==
    [][(Applied /\ JustApplied.kind = "Explode" /\ JustApplied.explode = "Penetrating") =>
        /\ Len(values') = Len(values)
        /\ Penetrates(JustApplied.point, values, values', 1, Consumed)]_vars

(***************************************************************************)
(* C21: the action log of a Value is append-only: whatever behaviour a     *)
(* step applies, alone or within apply_all, every Value that was there is  *)
(* still at its position and the log it had is a prefix of the log it has; *)
(* no entry is removed, reordered or changed.                              *)
(***************************************************************************)
C21_AppendOnly ==
    [][\A i \in Positions(values) :
          /\ i \in Positions(values')
          /\ IsPrefix(values[i].actions, values'[i].actions)]_vars

\* a log written by two behaviours: a Reroll, then a mark appended after it
C21_Witness ==
    /\ Len(applied) = 2
    /\ applied[1].kind = "Reroll"
    /\ \E i \in Positions(values) :
          /\ Len(values[i].actions) >= 2
          /\ values[i].actions[1].a = "Reroll"
          /\ values[i].actions[Len(values[i].actions)].a \in {"Failure", "Success", "Discard"}

\* the faces of a die, and the numbers of i8 inside a range
FaceSet(d) == faces(d).start..faces(d).end

Members(range) == {x \in I8Min..I8Max : contains(range, x)}

\* a zone as claimed: `width` faces of the die, from its lowest face up
\* (start) or from its highest face down (end)
ZoneAsClaimed(d, f, zone) ==
    /\ zone.some
    /\ Cardinality(Members(zone.val)) = critical(d).val
    /\ Members(zone.val) \subseteq FaceSet(d)
    /\ IF f = "start" THEN faces(d).start \in Members(zone.val)
       ELSE faces(d).end \in Members(zone.val)

(***************************************************************************)
(* C22: for every Dice but Fate, start() and end() return a zone that is   *)
(* exactly critical() faces wide, lies within faces() and holds the lowest *)
(* (start) or the highest (end) face; for Fate both return None, and a     *)
(* Reroll, Explode or Critical without a range returns the values of a     *)
(* Fate roll unchanged.                                                    *)
(***************************************************************************)
C22_Zones ==
    [][/\ (ret' # <<>> /\ ret' # ret) =>
             /\ ret'.res.ok
             /\ IF dice.name = "Fate" THEN ret'.res.val = None
                ELSE ZoneAsClaimed(dice, ret'.f, ret'.res.val)
       /\ (Applied /\ dice.name = "Fate") => values' = values]_vars

\* the place of a bound in the claimed order: a finite bound by its inner
\* value, Included or Excluded alike, and Unbounded above every i8
Rank(bound) == IF bound.kind = "Unbounded" THEN I8Max + 1 ELSE bound.v

\* start bounds first, end bounds on a tie
Lexicographic(x, y) ==
    IF Rank(x.start) # Rank(y.start) THEN cmp_int(Rank(x.start), Rank(y.start))
    ELSE cmp_int(Rank(x.end), Rank(y.end))

Converse(ordering) ==
    CASE ordering = "Less" -> "Greater"
      [] ordering = "Greater" -> "Less"
      [] OTHER -> "Equal"

(***************************************************************************)
(* C23: Bounded::cmp compares the start bounds and, on a tie, the end      *)
(* bounds; finite bounds compare by inner value whatever their             *)
(* inclusivity, Unbounded is Equal to Unbounded and Greater than every     *)
(* finite bound.  The relation is a total order up to Equal: a.cmp(a) is   *)
(* Equal, b.cmp(a) is the converse of a.cmp(b), and a <= b, b <= c give    *)
(* a <= c, which is Equal only if both are.                                *)
(***************************************************************************)
C23_Order ==
    pc = "compared" =>
        /\ ret.ab = Lexicographic(arg.a, arg.b)
        /\ ret.bc = Lexicographic(arg.b, arg.c)
        /\ ret.aa = "Equal"
        /\ ret.ba = Converse(ret.ab)
        /\ (ret.ab # "Greater" /\ ret.bc # "Greater") =>
              /\ ret.ac # "Greater"
              /\ ret.ac = "Equal" <=> (ret.ab = "Equal" /\ ret.bc = "Equal")

\* 1..=2 and a range differing from it in inclusivity only compare Equal,
\* and both are Less than 1.. : a chain of three
C23_Witness ==
    /\ pc = "compared"
    /\ arg.a = Bounded(Included(1), Included(2))
    /\ arg.b = Bounded(Excluded(1), Excluded(2))
    /\ arg.c = Bounded(Included(1), Unbounded)
    /\ ret.ab = "Equal" /\ ret.bc = "Less" /\ ret.ac = "Less"

\* the phase of an action: Reroll, Explode, Failure or Success, Discard
Phase(action) ==
    CASE action.a = "Reroll" -> 1
      [] action.a = "Explode" -> 2
      [] action.a \in {"Failure", "Success"} -> 3
      [] OTHER -> 4

(***************************************************************************)
(* C24: during and after one apply_all on Values whose logs were empty,    *)
(* the log of every Value is ordered by phase: every Reroll action comes   *)
(* before every Explode action, these before a Failure or Success, these   *)
(* before a Discard; so no Value is rerolled or exploded after it was      *)
(* marked or discarded.                                                    *)
(***************************************************************************)
C24_PhaseOrder ==
    base = 0 =>
        \A i \in Positions(values) :
            \A j, k \in 1..Len(values[i].actions) :
                j < k => Phase(values[i].actions[j]) <= Phase(values[i].actions[k])

\* one call has exploded a Value and then discarded it
C24_Witness ==
    /\ base = 0
    /\ pc = "idle"
    /\ Len(applied) = 2
    /\ \E i \in Positions(values) :
          LET log == values[i].actions
          IN  /\ Len(log) >= 2
              /\ log[1].a = "Explode"
              /\ log[Len(log)] = Discard

(***************************************************************************)
(* C25: Keep, Drop and Critical leave every value and the random stream    *)
(* alone: after one of them every Value has the value it had, no face was  *)
(* read, and each log is the log it was or that log with one action more,  *)
(* Discard for Keep and Drop, Failure or Success for Critical.             *)
(***************************************************************************)
C25_Frame ==
    [][(Applied /\ JustApplied.kind \in {"Keep", "Drop", "Critical"}) =>
        /\ rolled' = rolled
        /\ Len(values') = Len(values)
        /\ \A i \in Positions(values) :
              /\ values'[i].value = values[i].value
              /\ \/ values'[i].actions = values[i].actions
                 \/ \E action \in IF JustApplied.kind = "Critical"
                                  THEN {Failure, Success} ELSE {Discard} :
                       values'[i].actions = Append(values[i].actions, action)]_vars

\* a Critical and a Drop were applied: the 1 is marked and discarded, it is
\* still a 1, and no face was read
C25_Witness ==
    /\ Len(applied) = 2
    /\ applied[1].kind = "Critical"
    /\ applied[2].kind = "Drop"
    /\ rolled = <<>>
    /\ \E i \in Positions(values) :
          values[i] = [value |-> 1, actions |-> <<Failure, Discard>>]

\* how many times a Value carries an action
Marks(v, action) == Cardinality({k \in 1..Len(v.actions) : v.actions[k] = action})

(***************************************************************************)
(* C26: when an apply_all on fresh Values has returned, whatever Critical  *)
(* behaviours its list held, no Value carries both Failure and Success and *)
(* none carries Failure twice or Success twice.                            *)
(***************************************************************************)
C26_OneMark ==
    (pc = "idle" /\ base = 0) =>
        \A i \in Positions(values) :
            Marks(values[i], Failure) + Marks(values[i], Success) <= 1

====
